---- MODULE Spec2Model ----
(***************************************************************************)
(* Model of app.py: the employee registration and tag-overlap search       *)
(* application.  Every browser session runs the script top to bottom on    *)
(* each form submission; the Firestore collection 'employees' and its      *)
(* server clock are shared by all sessions.  A session's run is split at   *)
(* its external calls (the AI service and the document store), which is    *)
(* where the runs of two sessions interleave.                              *)
(***************************************************************************)
EXTENDS Integers, Sequences, FiniteSets, TLC

\* ------------------------------------------------------------------ bounds
\* Number of document writes the server clock is followed for.
MaxClock == 4
\* Longest tag list of a record or of a query in the ranking specification.
MaxTags == 2

\* ------------------------------------------------------------------ inputs
Sessions == {"s1", "s2"}
SingleUser == {"s1"}

\* Values typed into the registration form; "" is an empty field.
NameInputs == {"", "Alice", "Bob"}
DescInputs == {"", "d1", "d2"}
\* Values typed into the search box.
QueryInputs == {"", "q1"}

\* Texts the AI service answers a tag-extraction prompt with, as character
\* sequences: the model does not always keep to the comma-separated format.
TagResponses ==
    { <<"a">>,
      <<"A", ",", " ", "a">>,
      <<" ", "a", ",", "a", " ">> }

\* Texts the AI service answers the structuring prompt with.
StructResponses == {"md1"}

\* The outcome of an external call that raised.
AIFailure == <<"#", "raise">>
StructFailure == "#raise"
\* The marker returned when structuring fails (the source's text is Japanese).
FallbackMarker == "--- structuring failed ---"

\* Record names and tag strings of the ranking specification.
EmployeeNames == {"Alice", "Bob", "Carol"}
TagPool == { <<"a">>, <<"A">> }

\* ----------------------------------------------------------------- helpers
SetOf(seq) == {seq[i] : i \in DOMAIN seq}

\* Every sequence that lists the elements of S once each.
Orderings(S) ==
    {f \in [1..Cardinality(S) -> S] : \A i, j \in 1..Cardinality(S) : i # j => f[i] # f[j]}

SeqsUpTo(S, n) == UNION {[1..k -> S] : k \in 0..n}

IsSpace(c) == c = " "

RECURSIVE LStrip(_)
LStrip(s) == IF s # <<>> /\ IsSpace(Head(s)) THEN LStrip(Tail(s)) ELSE s

RECURSIVE RStrip(_)
RStrip(s) ==
    IF s # <<>> /\ IsSpace(s[Len(s)]) THEN RStrip(SubSeq(s, 1, Len(s) - 1)) ELSE s

\* str.strip()
strip(s) == RStrip(LStrip(s))

\* str.split(','): the pieces between commas, the empty ones too.
RECURSIVE split(_)
split(s) ==
    IF \A i \in DOMAIN s : s[i] # ","
    THEN <<s>>
    ELSE LET i == CHOOSE k \in DOMAIN s : s[k] = "," /\ \A j \in 1..(k - 1) : s[j] # ","
         IN  <<SubSeq(s, 1, i - 1)>> \o split(SubSeq(s, i + 1, Len(s)))

\* [t.strip() for t in response.text.split(',')]
ParseTags(text) == LET parts == split(text) IN [i \in DOMAIN parts |-> strip(parts[i])]

\* extract_tags_with_gemini without the try/except: the failure propagates.
extract_tags_unguarded(outcome) ==
    IF outcome = AIFailure
    THEN [value |-> <<>>, st_error |-> FALSE, raised |-> TRUE]
    ELSE [value |-> ParseTags(outcome), st_error |-> FALSE, raised |-> FALSE]

\* extract_tags_with_gemini(text), given what the AI call did.
extract_tags_with_gemini(outcome) ==
    IF outcome = AIFailure
    THEN [value |-> <<>>, st_error |-> TRUE, raised |-> FALSE]
    ELSE [value |-> ParseTags(outcome), st_error |-> FALSE, raised |-> FALSE]

\* structure_description_with_gemini(text), given what the AI call did.
structure_description_with_gemini(outcome) ==
    IF outcome = StructFailure
    THEN [value |-> FallbackMarker, st_error |-> TRUE]
    ELSE [value |-> outcome, st_error |-> FALSE]

\* ------------------------------------------------------------------- store
\* The document save_employee_data builds, written at server time ts.
Document(name, description, tags, structured_description, ts) ==
    [id |-> name, name |-> name, description |-> description,
     structured_description |-> structured_description, tags |-> tags,
     updated_at |-> ts]

\* A document without its server timestamp.
Fields(d) ==
    [id |-> d.id, name |-> d.name, description |-> d.description,
     structured_description |-> d.structured_description, tags |-> d.tags]

DocsOf(coll, name) == {d \in coll : d.id = name}

\* A write that adds a document instead of replacing the one with the same id.
save_employee_data_add(coll, name, description, tags, structured_description, ts) ==
    coll \cup {Document(name, description, tags, structured_description, ts)}

\* A write that appends the tags to those already stored.
save_employee_data_append(coll, name, description, tags, structured_description, ts) ==
    LET old == DocsOf(coll, name)
        prior == IF old = {} THEN <<>> ELSE (CHOOSE d \in old : TRUE).tags
    IN  (coll \ old) \cup {Document(name, description, prior \o tags, structured_description, ts)}

\* A field-level update that keeps a stored structured_description.
save_employee_data_patch(coll, name, description, tags, structured_description, ts) ==
    LET old == DocsOf(coll, name)
        sd == IF old = {} THEN structured_description
              ELSE (CHOOSE d \in old : TRUE).structured_description
    IN  (coll \ old) \cup {Document(name, description, tags, sd, ts)}

\* A write that replaces the collection by the one document.
save_employee_data_clobber(coll, name, description, tags, structured_description, ts) ==
    {Document(name, description, tags, structured_description, ts)}

\* save_employee_data: doc_ref.set(data) on document(name) creates the
\* document or replaces it whole.
save_employee_data(coll, name, description, tags, structured_description, ts) ==
    (coll \ DocsOf(coll, name))
        \cup {Document(name, description, tags, structured_description, ts)}

\* ----------------------------------------------------------------- matcher
Lower(c) == IF c = "A" THEN "a" ELSE c
LowerTag(t) == [i \in DOMAIN t |-> Lower(t[i])]

\* An intersection that ignores case.
match_tags_fold(search_set, emp_tags) ==
    {t \in search_set : \E u \in emp_tags : LowerTag(u) = LowerTag(t)}

\* search_set.intersection(emp_tags)
match_tags(search_set, emp_tags) == search_set \cap emp_tags

IsMatchLoose(match_count) == match_count >= 0

\* if match_count > 0
IsMatch(match_count) == match_count > 0

ResultEntry(data, match, keywords) ==
    [name |-> data.name, description |-> data.description, tags |-> data.tags,
     match_count |-> Cardinality(match), matched_keywords |-> keywords]

\* The loop over docs: every list of results it can build.  list(match_tags)
\* lists a set, in an order the language does not fix.
RECURSIVE ScanDocs(_, _)
ScanDocs(docs, search_set) ==
    IF docs = <<>>
    THEN {<<>>}
    ELSE LET data == Head(docs)
             match == match_tags(search_set, SetOf(data.tags))
             rest == ScanDocs(Tail(docs), search_set)
         IN  IF IsMatch(Cardinality(match))
             THEN {<<ResultEntry(data, match, kw)>> \o r : kw \in Orderings(match), r \in rest}
             ELSE rest

\* Insertion that puts x before the entries it ties with.
InsertDescFirst(sorted, x) ==
    LET before == {i \in DOMAIN sorted : sorted[i].match_count > x.match_count}
        k == Cardinality(before)
    IN  SubSeq(sorted, 1, k) \o <<x>> \o SubSeq(sorted, k + 1, Len(sorted))

\* x goes after every entry whose match_count is at least its own.
InsertDesc(sorted, x) ==
    LET before == {i \in DOMAIN sorted : sorted[i].match_count >= x.match_count}
        k == Cardinality(before)
    IN  SubSeq(sorted, 1, k) \o <<x>> \o SubSeq(sorted, k + 1, Len(sorted))

\* results.sort(key=match_count, reverse=True): a stable sort.
RECURSIVE SortFrom(_, _)
SortFrom(sorted, todo) ==
    IF todo = <<>> THEN sorted ELSE SortFrom(InsertDesc(sorted, Head(todo)), Tail(todo))

SortByMatchCount(results) == SortFrom(<<>>, results)

\* search_employees_by_tags on the documents the stream returned.
RankOutcomes(search_tags, docs) ==
    {SortByMatchCount(r) : r \in ScanDocs(docs, SetOf(search_tags))}


\* ------------------------------------------------------------------- state
VARIABLES
    store,            \* the 'employees' collection: a set of documents
    clock,            \* the store's server clock: the number of writes applied
    lastWrite,        \* per name, the last set() the store applied and its caller
    pc,               \* per session, where its script run stands
    menu,             \* per session, the sidebar's mode
    name_input,       \* per session, the registration form's fields
    desc_input,
    search_query,     \* per session, the search box
    extracted_tags,   \* per session, the locals of the registration branch
    structured_desc,
    query_tags,       \* per session, the locals of the search branch
    docs,
    results,
    out               \* per session, the run's external calls and UI messages

vars == <<store, clock, lastWrite, pc, menu, name_input, desc_input, search_query,
          extracted_tags, structured_desc, query_tags, docs, results, out>>

Resting == {"Idle", "Done", "Aborted", "Presented"}

\* A guard that asks for the name alone.
RegisterAdvancesNameOnly(name, desc) == name # ""

\* if submitted and name_input and desc_input
RegisterAdvances(name, desc) == name # "" /\ desc # ""

\* if search_btn and search_query
SearchAdvances(query) == query # ""

Init ==
    /\ store = {}
    /\ clock = 0
    /\ lastWrite = [n \in EmployeeNames |-> <<>>]
    /\ pc = [s \in Sessions |-> "Idle"]
    /\ menu = [s \in Sessions |-> "register"]
    /\ name_input = [s \in Sessions |-> ""]
    /\ desc_input = [s \in Sessions |-> ""]
    /\ search_query = [s \in Sessions |-> ""]
    /\ extracted_tags = [s \in Sessions |-> <<>>]
    /\ structured_desc = [s \in Sessions |-> ""]
    /\ query_tags = [s \in Sessions |-> <<>>]
    /\ docs = [s \in Sessions |-> <<>>]
    /\ results = [s \in Sessions |-> <<>>]
    /\ out = [s \in Sessions |-> <<>>]

\* A rerun of the script starts with no locals and an empty page.
FreshRun(s) ==
    /\ extracted_tags' = [extracted_tags EXCEPT ![s] = <<>>]
    /\ structured_desc' = [structured_desc EXCEPT ![s] = ""]
    /\ query_tags' = [query_tags EXCEPT ![s] = <<>>]
    /\ docs' = [docs EXCEPT ![s] = <<>>]
    /\ results' = [results EXCEPT ![s] = <<>>]
    /\ out' = [out EXCEPT ![s] = <<>>]

\* ------------------------------------------------------------ registration
\* The form is submitted: the branch is entered only with both fields filled.
RegisterSubmit(s) ==
    /\ pc[s] \in Resting
    /\ \E name \in NameInputs, desc \in DescInputs :
        /\ menu' = [menu EXCEPT ![s] = "register"]
        /\ name_input' = [name_input EXCEPT ![s] = name]
        /\ desc_input' = [desc_input EXCEPT ![s] = desc]
        /\ pc' = [pc EXCEPT ![s] = IF RegisterAdvances(name, desc) THEN "Extracting" ELSE "Idle"]
    /\ search_query' = [search_query EXCEPT ![s] = ""]
    /\ FreshRun(s)
    /\ UNCHANGED <<store, clock, lastWrite>>

\* extracted_tags = extract_tags_with_gemini(desc_input)
ExtractTags(s) ==
    /\ pc[s] = "Extracting"
    /\ \E outcome \in TagResponses \cup {AIFailure} :
        LET r == extract_tags_with_gemini(outcome) IN
        /\ extracted_tags' = [extracted_tags EXCEPT ![s] = r.value]
        /\ out' = [out EXCEPT ![s] = @ \o <<"generate_content">>
                        \o (IF r.st_error THEN <<"st.error">> ELSE <<>>)
                        \o (IF r.raised THEN <<"exception">> ELSE <<>>)]
        /\ pc' = [pc EXCEPT ![s] = IF r.raised THEN "Aborted" ELSE "Structuring"]
    /\ UNCHANGED <<store, clock, lastWrite, menu, name_input, desc_input, search_query,
                   structured_desc, query_tags, docs, results>>

\* structured_desc = structure_description_with_gemini(desc_input)
Structure(s) ==
    /\ pc[s] = "Structuring"
    /\ \E outcome \in StructResponses \cup {StructFailure} :
        LET r == structure_description_with_gemini(outcome) IN
        /\ structured_desc' = [structured_desc EXCEPT ![s] = r.value]
        /\ out' = [out EXCEPT ![s] = @ \o <<"generate_content">>
                        \o (IF r.st_error THEN <<"st.error">> ELSE <<>>)]
    /\ pc' = [pc EXCEPT ![s] = "Persisting"]
    /\ UNCHANGED <<store, clock, lastWrite, menu, name_input, desc_input, search_query,
                   extracted_tags, query_tags, docs, results>>

\* doc_ref.set(data) applied by the store, and the confirmation that follows
\* the call.
SetApplied(s, next) ==
    /\ clock < MaxClock
    /\ store' = save_employee_data(store, name_input[s], desc_input[s],
                                   extracted_tags[s], structured_desc[s], clock + 1)
    /\ clock' = clock + 1
    /\ lastWrite' = [lastWrite EXCEPT ![name_input[s]] =
                        <<[by |-> s, description |-> desc_input[s],
                           structured_description |-> structured_desc[s],
                           tags |-> extracted_tags[s]]>>]
    /\ out' = [out EXCEPT ![s] = @ \o <<"set", "st.success">>]
    /\ pc' = [pc EXCEPT ![s] = next]

\* doc_ref.set(data) raises: nothing catches it and the run ends there.
SetRaises(s) ==
    /\ out' = [out EXCEPT ![s] = @ \o <<"set", "exception">>]
    /\ pc' = [pc EXCEPT ![s] = "Aborted"]
    /\ UNCHANGED <<store, clock, lastWrite>>

\* The first save_employee_data call of the branch, then st.success.
SaveFirst(s) ==
    /\ pc[s] = "Persisting"
    /\ \/ SetApplied(s, "Persisting2")
       \/ SetRaises(s)
    /\ UNCHANGED <<menu, name_input, desc_input, search_query, extracted_tags,
                   structured_desc, query_tags, docs, results>>

\* The second save_employee_data call of the branch, then st.success.
SaveSecond(s) ==
    /\ pc[s] = "Persisting2"
    /\ \/ SetApplied(s, "Done")
       \/ SetRaises(s)
    /\ UNCHANGED <<menu, name_input, desc_input, search_query, extracted_tags,
                   structured_desc, query_tags, docs, results>>

\* ------------------------------------------------------------------ search
\* The search button is pressed: the branch is entered only with a query.
SearchSubmit(s) ==
    /\ pc[s] \in Resting
    /\ \E query \in QueryInputs :
        /\ search_query' = [search_query EXCEPT ![s] = query]
        /\ pc' = [pc EXCEPT ![s] = IF SearchAdvances(query) THEN "SearchExtracting" ELSE "Idle"]
    /\ menu' = [menu EXCEPT ![s] = "search"]
    /\ name_input' = [name_input EXCEPT ![s] = ""]
    /\ desc_input' = [desc_input EXCEPT ![s] = ""]
    /\ FreshRun(s)
    /\ UNCHANGED <<store, clock, lastWrite>>

\* query_tags = extract_tags_with_gemini(search_query), then st.info
SearchExtract(s) ==
    /\ pc[s] = "SearchExtracting"
    /\ \E outcome \in TagResponses \cup {AIFailure} :
        LET r == extract_tags_with_gemini(outcome) IN
        /\ query_tags' = [query_tags EXCEPT ![s] = r.value]
        /\ out' = [out EXCEPT ![s] = @ \o <<"generate_content">>
                        \o (IF r.st_error THEN <<"st.error">> ELSE <<>>)
                        \o (IF r.raised THEN <<"exception">> ELSE <<"st.info">>)]
        /\ pc' = [pc EXCEPT ![s] = IF r.raised THEN "Aborted" ELSE "Matching"]
    /\ UNCHANGED <<store, clock, lastWrite, menu, name_input, desc_input, search_query,
                   extracted_tags, structured_desc, docs, results>>

\* employees_ref.stream() returns every document, in an order the store picks.
StreamReturns(s) ==
    \E order \in Orderings(store) :
      \E r \in RankOutcomes(query_tags[s], order) :
        /\ docs' = [docs EXCEPT ![s] = order]
        /\ results' = [results EXCEPT ![s] = r]
        /\ out' = [out EXCEPT ![s] = @ \o <<"stream">>
                        \o (IF r # <<>> THEN <<"results">> ELSE <<"st.warning">>)]
        /\ pc' = [pc EXCEPT ![s] = "Presented"]

\* employees_ref.stream() raises: nothing catches it and the run ends there.
StreamRaises(s) ==
    /\ out' = [out EXCEPT ![s] = @ \o <<"stream", "exception">>]
    /\ pc' = [pc EXCEPT ![s] = "Aborted"]
    /\ UNCHANGED <<docs, results>>

\* results = search_employees_by_tags(query_tags), then the presentation.
SearchMatch(s) ==
    /\ pc[s] = "Matching"
    /\ \/ StreamReturns(s)
       \/ StreamRaises(s)
    /\ UNCHANGED <<store, clock, lastWrite, menu, name_input, desc_input, search_query,
                   extracted_tags, structured_desc, query_tags>>

\* One browser session: its runs follow one another.
Next ==
    \E s \in SingleUser :
        \/ RegisterSubmit(s)
        \/ ExtractTags(s)
        \/ Structure(s)
        \/ SaveFirst(s)
        \/ SaveSecond(s)
        \/ SearchSubmit(s)
        \/ SearchExtract(s)
        \/ SearchMatch(s)

Spec == Init /\ [][Next]_vars

\* Two browser sessions, each submitting the registration form once: their
\* runs interleave at every external call.
SubmitOnce(s) == pc[s] = "Idle" /\ out[s] = <<>> /\ RegisterSubmit(s)

NextRace ==
    \E s \in Sessions :
        \/ SubmitOnce(s)
        \/ ExtractTags(s)
        \/ Structure(s)
        \/ SaveFirst(s)
        \/ SaveSecond(s)

SpecRace == Init /\ [][NextRace]_vars

\* The ranking on its own: any collection the registrations can have left and
\* any tag list the extraction can have returned, with the search of session
\* s1 about to read the store.
TagLists == SeqsUpTo(TagPool, MaxTags)

ServerTime(name) == CASE name = "Alice" -> 1 [] name = "Bob" -> 2 [] OTHER -> 3

Collections ==
    {{Document(n, "d1", tl[n], "md1", ServerTime(n)) : n \in present} :
        present \in SUBSET EmployeeNames, tl \in [EmployeeNames -> TagLists]}

InitRank ==
    /\ store \in Collections
    /\ clock = MaxClock
    /\ lastWrite = [n \in EmployeeNames |->
          IF DocsOf(store, n) = {} THEN <<>>
          ELSE LET d == CHOOSE d \in DocsOf(store, n) : TRUE
               IN  <<[by |-> "s2", description |-> d.description,
                      structured_description |-> d.structured_description,
                      tags |-> d.tags]>>]
    /\ pc = [s \in Sessions |-> IF s = "s1" THEN "Matching" ELSE "Idle"]
    /\ menu = [s \in Sessions |-> IF s = "s1" THEN "search" ELSE "register"]
    /\ name_input = [s \in Sessions |-> ""]
    /\ desc_input = [s \in Sessions |-> ""]
    /\ search_query = [s \in Sessions |-> IF s = "s1" THEN "q1" ELSE ""]
    /\ extracted_tags = [s \in Sessions |-> <<>>]
    /\ structured_desc = [s \in Sessions |-> ""]
    /\ \E qt \in TagLists :
        /\ query_tags = [s \in Sessions |-> IF s = "s1" THEN qt ELSE <<>>]
        /\ out = [s \in Sessions |->
              IF s # "s1" THEN <<>>
              ELSE IF qt = <<>> THEN <<"generate_content", "st.error", "st.info">>
              ELSE <<"generate_content", "st.info">>]
    /\ docs = [s \in Sessions |-> <<>>]
    /\ results = [s \in Sessions |-> <<>>]

NextRank == \E s \in Sessions : SearchMatch(s)

SpecRank == InitRank /\ [][NextRank]_vars

\* ------------------------------------------------------------- properties
Presented(s) == pc[s] = "Presented"

\* The tags a stored document and the query of session s have in common.
Overlap(s, d) == SetOf(query_tags[s]) \cap SetOf(d.tags)

EntriesFor(s, d) == {i \in DOMAIN results[s] : results[s][i].name = d.name}

\* Where the stream of session s returned the record called name.
ReadPos(s, name) == CHOOSE i \in DOMAIN docs[s] : docs[s][i].name = name

Ends(seq, tail) ==
    /\ Len(seq) >= Len(tail)
    /\ SubSeq(seq, Len(seq) - Len(tail) + 1, Len(seq)) = tail

\* C1: every stored record that shares a tag with the query, by exact string
\* equality, has an entry in the result of search_employees_by_tags whose
\* match_count is the size of the intersection of the two tag sets (so at
\* least 1) and whose matched_keywords lists that intersection, each element
\* once.
C1_OverlapIsRanked ==
    \A s \in Sessions : Presented(s) =>
        \A d \in store : Overlap(s, d) # {} =>
            \E i \in DOMAIN results[s] :
                LET e == results[s][i] IN
                /\ e.name = d.name
                /\ e.match_count = Cardinality(Overlap(s, d))
                /\ e.match_count >= 1
                /\ SetOf(e.matched_keywords) = Overlap(s, d)
                /\ Len(e.matched_keywords) = Cardinality(Overlap(s, d))

\* A search that ranked one record on both its tags and left out a record
\* whose only tag differs from the query's in case alone.
C1_Witness ==
    /\ Presented("s1")
    /\ query_tags["s1"] = << <<"a">> >>
    /\ \E d \in store : d.tags = << <<"A">> >> /\ EntriesFor("s1", d) = {}
    /\ \E d \in store : d.tags = << <<"a">>, <<"a">> >> /\ EntriesFor("s1", d) # {}

\* C2: a stored record that shares no tag with the query (the empty query
\* included) has no entry in the result; when no record overlaps, the result
\* is empty and the search run ends by showing the no-match warning, not an
\* error and not an exception.
C2_NoOverlapIsAbsent ==
    \A s \in Sessions : Presented(s) =>
        /\ \A d \in store : Overlap(s, d) = {} => EntriesFor(s, d) = {}
        /\ (\A d \in store : Overlap(s, d) = {}) =>
              /\ results[s] = <<>>
              /\ Ends(out[s], <<"stream", "st.warning">>)
              /\ "exception" \notin SetOf(out[s])

\* A search with tags over a store whose records all miss them.
C2_Witness ==
    /\ Presented("s1")
    /\ Cardinality(store) = 3
    /\ query_tags["s1"] # <<>>
    /\ results["s1"] = <<>>
    /\ Ends(out["s1"], <<"st.warning">>)

\* C3: the result is sorted by match_count, largest first, and entries with
\* the same match_count stand in the order in which the stream returned
\* their records.
C3_SortedStable ==
    \A s \in Sessions : Presented(s) =>
        \A i, j \in DOMAIN results[s] : i < j =>
            /\ results[s][i].match_count >= results[s][j].match_count
            /\ results[s][i].match_count = results[s][j].match_count =>
                  ReadPos(s, results[s][i].name) < ReadPos(s, results[s][j].name)

\* Three results, the best of which the stream returned second, between two
\* that tie.
C3_Witness ==
    /\ Presented("s1")
    /\ Len(results["s1"]) = 3
    /\ results["s1"][1].match_count > results["s1"][2].match_count
    /\ results["s1"][2].match_count = results["s1"][3].match_count
    /\ docs["s1"][2].name = results["s1"][1].name
    /\ docs["s1"][1].name = results["s1"][2].name

\* C4: after any sequence of registrations the store holds exactly one
\* record for each name a registration wrote, none for any other name, and
\* that record's name, description, structured_description and tags are those
\* of the last write for the name: nothing of an earlier submission is left.
C4_OneRecordPerName ==
    \A n \in EmployeeNames :
        IF lastWrite[n] = <<>>
        THEN DocsOf(store, n) = {}
        ELSE /\ Cardinality(DocsOf(store, n)) = 1
             /\ \A d \in DocsOf(store, n) :
                    /\ d.name = n
                    /\ d.description = lastWrite[n][1].description
                    /\ d.structured_description = lastWrite[n][1].structured_description
                    /\ d.tags = lastWrite[n][1].tags

\* Alice registered twice (four writes, all hers) and Bob never: the second
\* registration, with other values, is the one stored.
C4_Witness ==
    /\ pc["s1"] = "Done"
    /\ clock = 4
    /\ Cardinality(store) = 1
    /\ \E d \in store :
          /\ d.id = "Alice" /\ d.updated_at = 4
          /\ d.description = "d2" /\ d.tags = <<>>
          /\ d.structured_description = FallbackMarker

\* C5: the second save_employee_data call of a registration run, made with
\* the arguments of the first, leaves the store with the same records as
\* before it but for updated_at, and with one record for the name, holding
\* the submitted values.
C5_SecondSaveChangesNothing ==
    [][\A s \in Sessions :
          (pc[s] = "Persisting2" /\ pc'[s] = "Done") =>
              /\ {Fields(d) : d \in store'} = {Fields(d) : d \in store}
              /\ Cardinality(store') = Cardinality(store)
              /\ Cardinality(DocsOf(store', name_input[s])) = 1
              /\ \A d \in DocsOf(store', name_input[s]) :
                    /\ d.description = desc_input[s]
                    /\ d.structured_description = structured_desc[s]
                    /\ d.tags = extracted_tags[s]]_vars

\* A run that made both calls, with tags, over a store that held a record of
\* the same name before.
C5_Witness ==
    /\ pc["s1"] = "Done"
    /\ clock = 4
    /\ \E d \in store :
          /\ d.id = name_input["s1"] /\ d.updated_at = 4
          /\ Len(d.tags) = 2
    /\ Cardinality(store) = 1

\* The run of session s is a registration whose tag extraction failed.
ExtractionFailed(s) ==
    /\ menu[s] = "register"
    /\ Len(out[s]) >= 2
    /\ out[s][1] = "generate_content" /\ out[s][2] = "st.error"

\* ... and whose structuring failed as well.
StructuringFailed(s) ==
    /\ Len(out[s]) >= 4
    /\ out[s][3] = "generate_content" /\ out[s][4] = "st.error"

\* C6: a failed AI call in the tag extraction yields the empty tag list and
\* no exception; the registration run goes on to structuring and persisting,
\* only an exception of the store ends a registration run early, and once
\* the store has accepted a write the record of the name has tags = [], the
\* submitted description and the structured text the run obtained, which is
\* the fallback marker when structuring failed too.
C6_ExtractionFailureDegrades ==
    \A s \in SingleUser :
        /\ ExtractionFailed(s) =>
              /\ extracted_tags[s] = <<>>
              /\ pc[s] \in {"Structuring", "Persisting", "Persisting2", "Done", "Aborted"}
              /\ pc[s] \in {"Persisting2", "Done"} =>
                    /\ DocsOf(store, name_input[s]) # {}
                    /\ \A d \in DocsOf(store, name_input[s]) :
                          /\ d.tags = <<>>
                          /\ d.description = desc_input[s]
                          /\ d.structured_description = structured_desc[s]
                          /\ StructuringFailed(s) => d.structured_description = FallbackMarker
        /\ (menu[s] = "register" /\ pc[s] = "Aborted") => Ends(out[s], <<"set", "exception">>)

\* A registration in which both AI calls failed and the store accepted the
\* writes.
C6_Witness ==
    /\ pc["s1"] = "Done"
    /\ ExtractionFailed("s1")
    /\ StructuringFailed("s1")
    /\ \E d \in store :
          /\ d.id = name_input["s1"]
          /\ d.tags = <<>>
          /\ d.structured_description = FallbackMarker

\* C7: a registration run in which a store write raised has shown no success
\* confirmation.
C7_NoSuccessAfterStoreError ==
    \A s \in Sessions :
        (menu[s] = "register" /\ pc[s] = "Aborted") => "st.success" \notin SetOf(out[s])

\* The submission of session s lacks a required field.
LacksInput(s) ==
    \/ menu[s] = "register" /\ (name_input[s] = "" \/ desc_input[s] = "")
    \/ menu[s] = "search" /\ search_query[s] = ""

\* The step is one of session s.
StepOf(s) ==
    \/ pc'[s] # pc[s] \/ out'[s] # out[s] \/ menu'[s] # menu[s]
    \/ name_input'[s] # name_input[s] \/ desc_input'[s] # desc_input[s]
    \/ search_query'[s] # search_query[s]

\* C8: a registration submitted with an empty name or an empty description,
\* and a search submitted with an empty query, do not advance: the run is
\* over at once, with no AI call, no store read and no store write made, and
\* the stored records as they were.
C8_EmptyInputIsNoOp ==
    [][\A s \in Sessions :
          LacksInput(s)' =>
              /\ pc'[s] = "Idle"
              /\ out'[s] = <<>>
              /\ StepOf(s) => (store' = store /\ clock' = clock)]_vars

\* After a registration, a submission without a description: the record is
\* still there and the session is idle with an empty page.
C8_Witness ==
    /\ menu["s1"] = "register"
    /\ name_input["s1"] = "Bob" /\ desc_input["s1"] = ""
    /\ pc["s1"] = "Idle"
    /\ store # {}

\* C9: when two sessions have both run a registration of the same name to
\* its end, whatever the order in which the store applied their writes, the
\* store holds one record for the name and its description,
\* structured_description and tags are all those of the session whose write
\* the store applied last; at no time does a record mix two submissions, and
\* nothing but an exception of the store ends a registration early.
C9_LastWriteWins ==
    /\ \A s, t \in Sessions :
          (s # t /\ pc[s] = "Done" /\ pc[t] = "Done" /\ name_input[s] = name_input[t]) =>
              LET n == name_input[s] IN
              /\ Cardinality(DocsOf(store, n)) = 1
              /\ lastWrite[n] # <<>>
              /\ LET w == lastWrite[n][1].by IN
                 \A d \in DocsOf(store, n) :
                    /\ d.name = n
                    /\ d.description = desc_input[w]
                    /\ d.structured_description = structured_desc[w]
                    /\ d.tags = extracted_tags[w]
    /\ \A d \in store :
          \E s \in Sessions :
              /\ pc[s] \in {"Persisting2", "Done", "Aborted"}
              /\ d.name = name_input[s]
              /\ d.description = desc_input[s]
              /\ d.structured_description = structured_desc[s]
              /\ d.tags = extracted_tags[s]
    /\ \A s \in Sessions : pc[s] = "Aborted" => Ends(out[s], <<"set", "exception">>)

\* Both sessions registered Alice to the end, with values that differ in
\* every field; the last write was one of session s1.
C9_Witness ==
    /\ pc["s1"] = "Done" /\ pc["s2"] = "Done"
    /\ name_input["s1"] = "Alice" /\ name_input["s2"] = "Alice"
    /\ desc_input["s1"] # desc_input["s2"]
    /\ structured_desc["s1"] # structured_desc["s2"]
    /\ extracted_tags["s1"] # extracted_tags["s2"]
    /\ lastWrite["Alice"][1].by = "s1"
    /\ clock = 4

NamesIn(coll) == {d.id : d \in coll}

\* C10: no step removes a name from the store; the store changes only in a
\* save step of a registration run; and no step of a search run (the
\* submission, the tag extraction, the read and ranking, the presentation)
\* changes it.
C10_OnlyRegistrationWrites ==
    [][/\ NamesIn(store) \subseteq NamesIn(store')
       /\ store' # store =>
             \E s \in Sessions :
                 /\ menu[s] = "register"
                 /\ pc[s] \in {"Persisting", "Persisting2"}
                 /\ pc'[s] \in {"Persisting2", "Done"}
       /\ \A s \in Sessions : (menu'[s] = "search" /\ StepOf(s)) => store' = store]_vars

\* A search that ranked the records of two registrations.
C10_Witness ==
    /\ Presented("s1")
    /\ NamesIn(store) = {"Alice", "Bob"}
    /\ Len(results["s1"]) = 2

====
